---- MODULE Spec2Model ----
(***************************************************************************)
(* Model of gu's clean-branches command (commands/clean_branches.ts):      *)
(* candidate selection, open-PR correlation, the checkbox selection and    *)
(* the two-pass (safe, then forced) batch delete.                          *)
(*                                                                         *)
(* Strings are sequences of one-character strings, so that toLowerCase,    *)
(* trim, split and startsWith are computed and not assumed.                *)
(***************************************************************************)
EXTENDS Integers, Sequences, FiniteSets, TLC

(* ---------------------------------------------------------------------- *)
(* Bounds                                                                  *)
(* ---------------------------------------------------------------------- *)
MaxBranches == 3
MaxPRs == 2
MaxLines == 2
MaxFiles == 7
MaxItems == 4
MaxOver == 2

(* ---------------------------------------------------------------------- *)
(* String helpers                                                          *)
(* ---------------------------------------------------------------------- *)
Range(s) == {s[k] : k \in 1..Len(s)}

UpperChars == <<"A","B","C","D","E","F","G","H","I","J","K","L","M",
                "N","O","P","Q","R","S","T","U","V","W","X","Y","Z">>
LowerChars == <<"a","b","c","d","e","f","g","h","i","j","k","l","m",
                "n","o","p","q","r","s","t","u","v","w","x","y","z">>

LowerChar(c) ==
  IF \E k \in 1..Len(UpperChars) : UpperChars[k] = c
    THEN LowerChars[CHOOSE k \in 1..Len(UpperChars) : UpperChars[k] = c]
    ELSE c

toLowerCase(s) == [k \in 1..Len(s) |-> LowerChar(s[k])]

startsWith(s, p) == Len(s) >= Len(p) /\ SubSeq(s, 1, Len(p)) = p

(* one character per element; the characters that have no plain spelling
   are the elements "TAB", "LF", "CR", "ARROW" and "ELLIPSIS" *)
IsSpace(c) == c \in {" ", "TAB", "LF", "CR"}

RECURSIVE trimStart(_)
trimStart(s) ==
  IF s # <<>> /\ IsSpace(Head(s)) THEN trimStart(Tail(s)) ELSE s

RECURSIVE trimEnd(_)
trimEnd(s) ==
  IF s # <<>> /\ IsSpace(s[Len(s)]) THEN trimEnd(SubSeq(s, 1, Len(s) - 1)) ELSE s

trim(s) == trimEnd(trimStart(s))

(* s.split(sep) for a one-character separator: the fields between the
   separators, empty fields kept *)
split(s, sep) ==
  LET seps == {k \in 1..Len(s) : s[k] = sep}
      nth(j) == IF j = 0 THEN 0
                ELSE IF j > Cardinality(seps) THEN Len(s) + 1
                ELSE CHOOSE k \in seps : Cardinality({m \in seps : m < k}) = j - 1
  IN [j \in 1..(Cardinality(seps) + 1) |-> SubSeq(s, nth(j - 1) + 1, nth(j) - 1)]

(* ---------------------------------------------------------------------- *)
(* The names the inputs are drawn from                                     *)
(* ---------------------------------------------------------------------- *)
EmptyStr == <<>>
NameMain == <<"m","a","i","n">>
NameFa == <<"f","a">>
NameFaCap == <<"F","a">>
NameFaUp == <<"F","A">>
NameRelease == <<"r","e","l","e","a","s","e","/","1">>
ReleasePrefix == <<"r","e","l","e","a","s","e","/">>

BranchNames == {NameMain, NameFa, NameFaCap, NameRelease}
HeadRefs == {NameFa, NameFaUp, EmptyStr}

(* opts.protected: absent, or a comma-separated string *)
NoOption == <<"<undefined>">>
ProtectedFa == <<"f","a">>
ProtectedMainRelease ==
  <<"m","a","i","n",","," ","r","e","l","e","a","s","e","/","1",",">>
ProtectedOptions == {NoOption, ProtectedFa, ProtectedMainRelease}

DefaultProtected ==
  <<"m","a","i","n",",","m","a","s","t","e","r",",",
    "i","n","t","e","g","r","a","t","i","o","n",",",
    "d","e","v","e","l","o","p">>

(* new Set((opts.protected ?? default).split(",").map(trim).filter(Boolean)) *)
protectedSetOf(opt) ==
  LET str == IF opt = NoOption THEN DefaultProtected ELSE opt
      fields == split(str, ",")
  IN {trim(fields[k]) : k \in 1..Len(fields)} \ {EmptyStr}

(* sequences of distinct names of length at most n *)
DistinctSeqs(S, n) ==
  {q \in UNION {[1..m -> S] : m \in 0..n} :
     \A a, b \in DOMAIN q : a # b => q[a] # q[b]}

BranchLists == DistinctSeqs(BranchNames, MaxBranches)

(* open PRs as returned by the API: number and head ref, in return order *)
PRLists ==
  UNION {{[k \in 1..m |-> [number |-> k, headRef |-> h[k]]] : h \in [1..m -> HeadRefs]}
           : m \in 0..MaxPRs}

(* ---------------------------------------------------------------------- *)
(* Pure parts of the command                                               *)
(* ---------------------------------------------------------------------- *)
(* xs.filter(keep), keep given as the set of values kept *)
RECURSIVE filterSeq(_, _)
filterSeq(xs, keep) ==
  IF xs = <<>> THEN <<>>
  ELSE IF Head(xs) \in keep THEN <<Head(xs)>> \o filterSeq(Tail(xs), keep)
  ELSE filterSeq(Tail(xs), keep)

(* variants of the candidate filter: without the current-branch test, and
   with the two tests joined by "or" *)
candidatesOfNoCurrent(allBranches, cur, prot) ==
  filterSeq(allBranches, {b \in Range(allBranches) : b \notin prot})

candidatesOfEither(allBranches, cur, prot) ==
  filterSeq(allBranches, {b \in Range(allBranches) : b \notin prot \/ b # cur})

(* all.filter((b) => !protectedSet.has(b) && b !== current) *)
candidatesOf(allBranches, cur, prot) ==
  filterSeq(allBranches, {b \in Range(allBranches) : b \notin prot /\ b # cur})

(* Map.prototype.set: a later set of the same key replaces the value *)
mapSet(m, key, val) ==
  [x \in DOMAIN m \cup {key} |-> IF x = key THEN val ELSE m[x]]

EmptyMap == [x \in {} |-> x]

(* new Map(candidates.map((b) => [b.toLowerCase(), b])) *)
RECURSIVE lowerMapFrom(_, _)
lowerMapFrom(cands, acc) ==
  IF cands = <<>> THEN acc
  ELSE lowerMapFrom(Tail(cands), mapSet(acc, toLowerCase(Head(cands)), Head(cands)))

lowerMap(cands) == lowerMapFrom(cands, EmptyMap)

(* variant of the correlation loop that keeps the first PR of a branch *)
RECURSIVE correlateKeepFirst(_, _, _)
correlateKeepFirst(prList, lower, acc) ==
  IF prList = <<>> THEN acc
  ELSE LET pr == Head(prList)
           key == toLowerCase(pr.headRef)
       IN correlateKeepFirst(Tail(prList), lower,
            IF key \in DOMAIN lower /\ lower[key] \notin DOMAIN acc
              THEN [x \in DOMAIN acc \cup {lower[key]} |->
                      IF x = lower[key] THEN pr ELSE acc[x]]
              ELSE acc)

(* for (const pr of prs) { match = lower.get(headRef.toLowerCase());
                           if (match) prByBranch.set(match, pr) }         *)
RECURSIVE correlate(_, _, _)
correlate(prList, lower, acc) ==
  IF prList = <<>> THEN acc
  ELSE LET pr == Head(prList)
           key == toLowerCase(pr.headRef)
       IN correlate(Tail(prList), lower,
                    IF key \in DOMAIN lower THEN mapSet(acc, lower[key], pr) ELSE acc)

(* variant with the override flag read the wrong way round *)
disabledInverted(b, prMap, allowPr) == b \in DOMAIN prMap /\ allowPr

(* disabled: pr && !opts.allowPr ? "open PR" : false *)
disabled(b, prMap, allowPr) == b \in DOMAIN prMap /\ ~allowPr

(* the options of the checkbox that can be ticked *)
selectableOf(cands, prMap, allowPr) ==
  {b \in Range(cands) : ~disabled(b, prMap, allowPr)}

(* ---------------------------------------------------------------------- *)
(* State of one invocation                                                 *)
(* ---------------------------------------------------------------------- *)
VARIABLES
  pc,            \* position of the action callback
  all,           \* git branch --format=%(refname:short), split and trimmed
  current,       \* git branch --show-current ("" when detached)
  protectedSet,  \* parsed --protected
  optPrs,        \* opts.prs (false with --no-prs)
  optAllowPr,    \* opts.allowPr
  candidates,
  fetchResult,   \* outcome of the PR request: "none", "ok", "notOk", "network", "badBody"
  prs,           \* value returned by fetchOpenPRs
  prByBranch,
  selectable,    \* checkbox options that are not disabled
  selections,
  failed,
  idx,           \* loop position inside the running batch
  safeLog,       \* branches given to git branch -d, in order
  deleted,       \* "Deleted: b" lines
  offered,       \* branches listed before the force prompt
  forceAccepted, \* answer to the force prompt
  forceLog,      \* branches given to git branch -D, in order
  forceDeleted,  \* "Force deleted: b" lines
  forceErrors,   \* "Failed to force delete b" lines
  exitCause      \* how the callback ended

vars == <<pc, all, current, protectedSet, optPrs, optAllowPr, candidates,
          fetchResult, prs, prByBranch, selectable, selections, failed, idx,
          safeLog, deleted, offered, forceAccepted, forceLog, forceDeleted,
          forceErrors, exitCause>>

inputVars == <<all, current, protectedSet, optPrs, optAllowPr, candidates>>
prVars == <<fetchResult, prs, prByBranch>>
safeVars == <<failed, safeLog, deleted>>
forceVars == <<offered, forceAccepted, forceLog, forceDeleted, forceErrors>>

CleanBranchesInit ==
  /\ pc = "ListCandidates"
  /\ all = <<>>
  /\ current = EmptyStr
  /\ protectedSet = {}
  /\ optPrs = TRUE
  /\ optAllowPr = FALSE
  /\ candidates = <<>>
  /\ fetchResult = "none"
  /\ prs = <<>>
  /\ prByBranch = EmptyMap
  /\ selectable = {}
  /\ selections = <<>>
  /\ failed = <<>>
  /\ idx = 0
  /\ safeLog = <<>>
  /\ deleted = <<>>
  /\ offered = <<>>
  /\ forceAccepted = FALSE
  /\ forceLog = <<>>
  /\ forceDeleted = <<>>
  /\ forceErrors = <<>>
  /\ exitCause = "running"

(* ---------------------------------------------------------------------- *)
(* Steps of the two delete loops                                           *)
(* ---------------------------------------------------------------------- *)
(* variant that records every attempted branch as failed *)
failedAfterAlways(fl, b, ok) == Append(fl, b)

(* try { await git(["branch","-d",b]) } catch { failed.push(b) } *)
failedAfter(fl, b, ok) == IF ok THEN fl ELSE Append(fl, b)

(* console.log(`Deleted: ${b}`) is reached only when git did not throw *)
deletedAfter(dl, b, ok) == IF ok THEN Append(dl, b) ELSE dl

(* variant in which a failed delete ends the loop *)
safeLoopNextAbort(k, n, ok) == IF ok THEN k + 1 ELSE n + 1

(* for (const b of selections): the catch block lets the loop go on *)
safeLoopNext(k, n, ok) == k + 1

(* variant that retries the whole selection *)
forceTargetsAll(sel, fl) == sel

(* for (const b of failed) *)
forceTargets(sel, fl) == fl

(* variant in which a failed forced delete ends the loop *)
forceLoopNextAbort(k, n, ok) == IF ok THEN k + 1 ELSE n + 1

(* the catch block of the forced loop reports and lets the loop go on *)
forceLoopNext(k, n, ok) == k + 1

(* console.error(`Failed to force delete ${b}: ...`) *)
forceErrorsAfter(el, b, ok) == IF ok THEN el ELSE Append(el, b)

(* ---------------------------------------------------------------------- *)
(* Actions                                                                 *)
(* ---------------------------------------------------------------------- *)
(* variant in which an ended run shows the checkbox again *)
FinishReprompt(cause) == pc' = "UserSelect" /\ exitCause' = cause

Finish(cause) == pc' = "Done" /\ exitCause' = cause
Abort(cause) == pc' = "Aborted" /\ exitCause' = cause

(* lines 250-301: repository check, option parsing, branch listing, the
   candidate filter and the decision whether a PR lookup is made *)
ListCandidates ==
  /\ pc = "ListCandidates"
  /\ \/ /\ Abort("notRepo")          \* inGitRepo() is false: Deno.exit(1)
        /\ UNCHANGED <<inputVars, prVars, selectable, selections, idx, safeVars, forceVars>>
     \/ /\ Abort("gitError")         \* git(...) rejects while listing
        /\ UNCHANGED <<inputVars, prVars, selectable, selections, idx, safeVars, forceVars>>
     \/ \E branches \in BranchLists, opt \in ProtectedOptions,
           noPrs \in BOOLEAN, allowPr \in BOOLEAN, canLookup \in BOOLEAN :
          \E cur \in {EmptyStr} \cup Range(branches) :
            LET prot == protectedSetOf(opt)
                cands == candidatesOf(branches, cur, prot)
            IN /\ all' = branches
               /\ current' = cur
               /\ protectedSet' = prot
               /\ optPrs' = ~noPrs
               /\ optAllowPr' = allowPr
               /\ candidates' = cands
               /\ IF cands = <<>>
                    THEN /\ Finish("noCandidates")
                         /\ selectable' = selectable
                    ELSE IF ~noPrs /\ canLookup   \* opts.prs, token && ownerRepo
                    THEN /\ pc' = "FetchPRs"
                         /\ UNCHANGED <<exitCause, selectable>>
                    ELSE /\ pc' = "UserSelect"
                         /\ selectable' = selectableOf(cands, prByBranch, allowPr)
                         /\ UNCHANGED exitCause
               /\ UNCHANGED <<prVars, selections, idx, safeVars, forceVars>>

(* fetchOpenPRs, lines 223-242 *)
FetchPRs ==
  /\ pc = "FetchPRs"
  /\ \/ \E list \in PRLists :          \* 2xx response with a JSON array
          /\ fetchResult' = "ok"
          /\ prs' = list
          /\ pc' = "Correlate"
          /\ UNCHANGED exitCause
     \/ /\ fetchResult' = "notOk"      \* if (!res.ok) return []
        /\ prs' = <<>>
        /\ pc' = "Correlate"
        /\ UNCHANGED exitCause
     \/ /\ fetchResult' = "network"    \* fetch() rejects: nothing catches it
        /\ prs' = prs
        /\ Abort("prLookupError")
     \/ /\ fetchResult' = "badBody"    \* res.json() rejects: nothing catches it
        /\ prs' = prs
        /\ Abort("prLookupError")
  /\ UNCHANGED <<inputVars, prByBranch, selectable, selections, idx, safeVars, forceVars>>

(* lines 295-318: the correlation loop and the checkbox options *)
Correlate ==
  /\ pc = "Correlate"
  /\ prByBranch' = correlate(prs, lowerMap(candidates), EmptyMap)
  /\ selectable' = selectableOf(candidates, prByBranch', optAllowPr)
  /\ pc' = "UserSelect"
  /\ UNCHANGED <<inputVars, fetchResult, prs, selections, idx, safeVars, forceVars, exitCause>>

(* lines 304-323: the user ticks some of the enabled options *)
(* variant of the checkbox that offers every local branch *)
UserSelectFromAll ==
  /\ pc = "UserSelect"
  /\ \E ticked \in SUBSET Range(all) :
       /\ selections' = filterSeq(all, ticked)
       /\ IF ticked = {} THEN Finish("noSelection")
                         ELSE pc' = "ConfirmDelete" /\ UNCHANGED exitCause
  /\ UNCHANGED <<inputVars, prVars, selectable, idx, safeVars, forceVars>>

UserSelect ==
  /\ pc = "UserSelect"
  /\ \E ticked \in SUBSET selectable :
       /\ selections' = filterSeq(candidates, ticked)
       /\ IF ticked = {} THEN Finish("noSelection")
                         ELSE pc' = "ConfirmDelete" /\ UNCHANGED exitCause
  /\ UNCHANGED <<inputVars, prVars, selectable, idx, safeVars, forceVars>>

(* variant of the confirmation in which "Cancelled." is printed but the
   callback does not return *)
ConfirmDeleteNoReturn ==
  /\ pc = "ConfirmDelete"
  /\ \E ok \in BOOLEAN :
       /\ pc' = "SafeDeleteBatch"
       /\ idx' = 1
       /\ exitCause' = IF ok THEN exitCause ELSE "cancelled"
  /\ UNCHANGED <<inputVars, prVars, selectable, selections, safeVars, forceVars>>

(* lines 328-331 *)
ConfirmDelete ==
  /\ pc = "ConfirmDelete"
  /\ \E ok \in BOOLEAN :
       IF ok THEN /\ pc' = "SafeDeleteBatch"
                  /\ idx' = 1
                  /\ UNCHANGED exitCause
             ELSE /\ Finish("cancelled")
                  /\ idx' = idx
  /\ UNCHANGED <<inputVars, prVars, selectable, selections, safeVars, forceVars>>

(* lines 332-344: one iteration of the safe loop; after the last one the
   failed list decides between Done and the force prompt *)
SafeDelete ==
  /\ pc = "SafeDeleteBatch"
  /\ idx <= Len(selections)
  /\ \E ok \in BOOLEAN :
       LET b == selections[idx]
           fl == failedAfter(failed, b, ok)
           nxt == safeLoopNext(idx, Len(selections), ok)
       IN /\ safeLog' = Append(safeLog, [branch |-> b, ok |-> ok])
          /\ failed' = fl
          /\ deleted' = deletedAfter(deleted, b, ok)
          /\ IF nxt <= Len(selections)
               THEN /\ idx' = nxt
                    /\ UNCHANGED <<pc, exitCause, offered>>
               ELSE IF fl = <<>>
               THEN /\ Finish("allDeleted")
                    /\ idx' = 0
                    /\ offered' = offered
               ELSE /\ pc' = "ConfirmForce"
                    /\ idx' = 0
                    /\ offered' = fl
                    /\ UNCHANGED exitCause
  /\ UNCHANGED <<inputVars, prVars, selectable, selections,
                 forceAccepted, forceLog, forceDeleted, forceErrors>>

(* lines 346-347 *)
ConfirmForce ==
  /\ pc = "ConfirmForce"
  /\ \E force \in BOOLEAN :
       /\ forceAccepted' = force
       /\ IF force THEN /\ pc' = "ForceDeleteBatch"
                        /\ idx' = 1
                        /\ UNCHANGED exitCause
                   ELSE /\ Finish("forceDeclined")
                        /\ idx' = idx
  /\ UNCHANGED <<inputVars, prVars, selectable, selections, safeVars,
                 offered, forceLog, forceDeleted, forceErrors>>

(* lines 349-358: one iteration of the forced loop *)
ForceDelete ==
  /\ pc = "ForceDeleteBatch"
  /\ LET targets == forceTargets(selections, failed)
     IN /\ idx <= Len(targets)
        /\ \E ok \in BOOLEAN :
             LET b == targets[idx]
                 nxt == forceLoopNext(idx, Len(targets), ok)
             IN /\ forceLog' = Append(forceLog, [branch |-> b, ok |-> ok])
                /\ forceDeleted' = deletedAfter(forceDeleted, b, ok)
                /\ forceErrors' = forceErrorsAfter(forceErrors, b, ok)
                /\ IF nxt <= Len(targets)
                     THEN idx' = nxt /\ UNCHANGED <<pc, exitCause>>
                     ELSE idx' = 0 /\ Finish("completed")
  /\ UNCHANGED <<inputVars, prVars, selectable, selections, safeVars,
                 offered, forceAccepted>>

Next ==
  \/ ListCandidates
  \/ FetchPRs
  \/ Correlate
  \/ UserSelect
  \/ ConfirmDelete
  \/ SafeDelete
  \/ ConfirmForce
  \/ ForceDelete

(* ====================================================================== *)
(* The commit message generator (commands/commit.ts)                       *)
(* ====================================================================== *)
Undefined == <<"<undefined>">>

(* `${x}` *)
strOf(x) == IF x = Undefined THEN <<"u","n","d","e","f","i","n","e","d">> ELSE x

(* xs.join(sep) *)
RECURSIVE join(_, _)
join(xs, sep) ==
  IF xs = <<>> THEN <<>>
  ELSE IF Len(xs) = 1 THEN strOf(xs[1])
  ELSE strOf(xs[1]) \o sep \o join(Tail(xs), sep)

(* xs.filter(Boolean) on strings: the empty string is dropped *)
RECURSIVE filterBoolean(_)
filterBoolean(xs) ==
  IF xs = <<>> THEN <<>>
  ELSE IF Head(xs) = <<>> THEN filterBoolean(Tail(xs))
  ELSE <<Head(xs)>> \o filterBoolean(Tail(xs))

(* Array.from(new Set(xs)): first occurrences, in order *)
RECURSIVE uniqFrom(_, _)
uniqFrom(xs, acc) ==
  IF xs = <<>> THEN acc
  ELSE uniqFrom(Tail(xs), IF Head(xs) \in Range(acc) THEN acc ELSE Append(acc, Head(xs)))

uniq(xs) == uniqFrom(xs, <<>>)

Digits == <<"0","1","2","3","4","5","6","7","8","9">>

(* String(n) for n >= 0 *)
RECURSIVE numStr(_)
numStr(n) ==
  IF n < 10 THEN <<Digits[n + 1]>>
  ELSE numStr(n \div 10) \o <<Digits[(n % 10) + 1]>>

(* text.split(/\r?\n/): cut at every LF, a CR just before the LF goes too *)
splitLines(text) ==
  LET pieces == split(text, "LF")
  IN [k \in 1..Len(pieces) |->
        IF k < Len(pieces) /\ pieces[k] # <<>> /\ pieces[k][Len(pieces[k])] = "CR"
          THEN SubSeq(pieces[k], 1, Len(pieces[k]) - 1)
          ELSE pieces[k]]

(* line.split(/\t+/).filter(Boolean): the non-empty fields between tabs *)
splitTabs(line) == filterBoolean(split(line, "TAB"))

(* variant that always takes the first field as the path *)
parseLineFirstField(line) ==
  LET parts == splitTabs(line)
      rawCode == parts[1]
      kind == rawCode[1]
  IN IF parts = <<>> THEN <<>>
     ELSE IF kind \in {"R", "C"} /\ Len(parts) >= 3
       THEN <<[kind |-> kind, from |-> parts[2], to |-> parts[3],
               score |-> IF Len(rawCode) > 1 THEN Tail(rawCode) ELSE Undefined]>>
     ELSE <<[kind |-> kind, file |-> parts[1]]>>

(* one iteration of the loop of parseNameStatus *)
parseLine(line) ==
  LET parts == splitTabs(line)
      rawCode == parts[1]
      kind == rawCode[1]
  IN IF parts = <<>> THEN <<>>
     ELSE IF kind \in {"R", "C"} /\ Len(parts) >= 3
       THEN <<[kind |-> kind, from |-> parts[2], to |-> parts[3],
               score |-> IF Len(rawCode) > 1 THEN Tail(rawCode) ELSE Undefined]>>
     ELSE <<[kind |-> kind, file |-> IF Len(parts) >= 2 THEN parts[2] ELSE parts[1]]>>

RECURSIVE parseLines(_)
parseLines(lines) ==
  IF lines = <<>> THEN <<>> ELSE parseLine(Head(lines)) \o parseLines(Tail(lines))

parseNameStatus(text) ==
  parseLines(filterBoolean([k \in 1..Len(splitLines(text)) |-> trim(splitLines(text)[k])]))

(* e.from / e.to / e.file: a missing property reads as undefined *)
prop(e, name) == IF name \in DOMAIN e THEN e[name] ELSE Undefined

(* `${e.from} -> ${e.to}` with the arrow character between two spaces *)
pairText(e) == strOf(prop(e, "from")) \o <<" ","ARROW"," ">> \o strOf(prop(e, "to"))

EmptyBuckets ==
  [added |-> <<>>, modified |-> <<>>, deleted |-> <<>>,
   renamed |-> <<>>, copied |-> <<>>, other |-> <<>>]

(* the if / else-if chain of bucketize for one entry *)
pushEntry(b, e) ==
  IF e.kind = "A" THEN [b EXCEPT !.added = Append(@, prop(e, "file"))]
  ELSE IF e.kind = "M" THEN [b EXCEPT !.modified = Append(@, prop(e, "file"))]
  ELSE IF e.kind = "D" THEN [b EXCEPT !.deleted = Append(@, prop(e, "file"))]
  ELSE IF e.kind = "R" THEN [b EXCEPT !.renamed = Append(@, pairText(e))]
  ELSE IF e.kind = "C" THEN [b EXCEPT !.copied = Append(@, pairText(e))]
  ELSE [b EXCEPT !.other =
          Append(@, IF "file" \in DOMAIN e THEN e.file ELSE pairText(e))]

RECURSIVE pushAll(_, _)
pushAll(b, es) ==
  IF es = <<>> THEN b ELSE pushAll(pushEntry(b, Head(es)), Tail(es))

(* String.prototype.localeCompare in the root collation, for the characters
   used here: first the strings are compared with case ignored, character
   by character in the order below (space, punctuation, symbols, digits,
   letters); if that ties, the first difference in case decides, lower case
   first. *)
CollationOrder ==
  <<" ","_","-",".","(",")","/","+","ARROW",
    "0","1","2","3","4","5","6","7","8","9",
    "a","b","c","d","e","f","g","h","i","j","k","l","m",
    "n","o","p","q","r","s","t","u","v","w","x","y","z">>

primaryWeight(c) ==
  CHOOSE k \in 1..Len(CollationOrder) : CollationOrder[k] = LowerChar(c)

caseWeight(c) == IF LowerChar(c) = c THEN 0 ELSE 1

(* -1, 0 or 1: lexicographic comparison of two sequences of weights *)
compareWeights(x, y) ==
  LET common == IF Len(x) < Len(y) THEN Len(x) ELSE Len(y)
      diffs == {k \in 1..common : x[k] # y[k]}
      first == CHOOSE k \in diffs : \A m \in diffs : k <= m
  IN IF diffs # {} THEN (IF x[first] < y[first] THEN -1 ELSE 1)
     ELSE IF Len(x) < Len(y) THEN -1
     ELSE IF Len(x) > Len(y) THEN 1
     ELSE 0

localeCompare(x, y) ==
  LET sx == strOf(x)
      sy == strOf(y)
      p == compareWeights([k \in 1..Len(sx) |-> primaryWeight(sx[k])], [k \in 1..Len(sy) |-> primaryWeight(sy[k])])
  IN IF p # 0 THEN p
     ELSE compareWeights([k \in 1..Len(sx) |-> caseWeight(sx[k])], [k \in 1..Len(sy) |-> caseWeight(sy[k])])

(* a.slice().sort((x, y) => x.localeCompare(y)): Array.prototype.sort is
   stable, an element goes after the elements it does not precede *)
RECURSIVE insertSorted(_, _)
insertSorted(sorted, x) ==
  IF sorted = <<>> THEN <<x>>
  ELSE IF localeCompare(x, Head(sorted)) < 0 THEN <<x>> \o sorted
  ELSE <<Head(sorted)>> \o insertSorted(Tail(sorted), x)

RECURSIVE sortFrom(_, _)
sortFrom(xs, acc) ==
  IF xs = <<>> THEN acc ELSE sortFrom(Tail(xs), insertSorted(acc, Head(xs)))

(* variant that leaves the array in push order *)
sortBucketUnsorted(a) == a

(* const sort = (a) => a.slice().sort((x, y) => x.localeCompare(y)) *)
sortBucket(a) == sortFrom(a, <<>>)

(* variant that drops entries whose kind is none of A, M, D, R, C *)
bucketizeDropOther(entries) ==
  LET b == pushAll(EmptyBuckets, entries)
  IN [added |-> sortBucket(b.added), modified |-> sortBucket(b.modified),
      deleted |-> sortBucket(b.deleted), renamed |-> sortBucket(b.renamed),
      copied |-> sortBucket(b.copied), other |-> <<>>]

(* variant that removes repeated display strings from every bucket *)
bucketizeDedup(entries) ==
  LET b == pushAll(EmptyBuckets, entries)
  IN [added |-> sortBucket(uniq(b.added)), modified |-> sortBucket(uniq(b.modified)),
      deleted |-> sortBucket(uniq(b.deleted)), renamed |-> sortBucket(uniq(b.renamed)),
      copied |-> sortBucket(uniq(b.copied)), other |-> sortBucket(uniq(b.other))]

(* variant that returns the buckets in push order *)
bucketizeUnsorted(entries) == pushAll(EmptyBuckets, entries)

bucketize(entries) ==
  LET b == pushAll(EmptyBuckets, entries)
  IN [added |-> sortBucket(b.added), modified |-> sortBucket(b.modified),
      deleted |-> sortBucket(b.deleted), renamed |-> sortBucket(b.renamed),
      copied |-> sortBucket(b.copied), other |-> sortBucket(b.other)]

MaxPathLen == 26

(* xs.slice(-n): the last n elements *)
lastN(xs, n) == IF Len(xs) <= n THEN xs ELSE SubSeq(xs, Len(xs) - n + 1, Len(xs))

(* xs.slice(0, n) *)
firstN(xs, n) == IF Len(xs) <= n THEN xs ELSE SubSeq(xs, 1, n)

(* variant that does not trim its argument *)
shortPathNoTrim(p) ==
  LET s == p
      parts == filterBoolean(split(s, "/"))
      last2 == join(lastN(parts, 2), <<"/">>)
      base == IF parts = <<>> THEN s ELSE parts[Len(parts)]
      keep == IF MaxPathLen - 1 > 1 THEN MaxPathLen - 1 ELSE 1
  IN IF Len(s) <= MaxPathLen THEN s
     ELSE IF Len(last2) <= MaxPathLen THEN last2
     ELSE IF Len(base) <= MaxPathLen THEN base
     ELSE firstN(base, keep) \o <<"ELLIPSIS">>

shortPath(p) ==
  LET s == trim(p)
      parts == filterBoolean(split(s, "/"))
      last2 == join(lastN(parts, 2), <<"/">>)
      base == IF parts = <<>> THEN s ELSE parts[Len(parts)]
      keep == IF MaxPathLen - 1 > 1 THEN MaxPathLen - 1 ELSE 1
  IN IF Len(s) <= MaxPathLen THEN s
     ELSE IF Len(last2) <= MaxPathLen THEN last2
     ELSE IF Len(base) <= MaxPathLen THEN base
     ELSE firstN(base, keep) \o <<"ELLIPSIS">>

(* variant that keeps repeated items *)
joinUniqKeepRepeats(items) == filterBoolean(items)

(* const uniq = Array.from(new Set(items)).filter(Boolean) *)
joinUniq(items) == filterBoolean(uniq(items))

(* const shown = uniq.slice(0, maxShow) *)
joinShown(items, maxShow) == firstN(joinUniq(items), maxShow)

joinNice(items, maxShow) ==
  LET shown == joinShown(items, maxShow)
      diff == Len(joinUniq(items)) - Len(shown)
      remaining == IF diff > 0 THEN diff ELSE 0
  IN IF Len(shown) = 0 THEN [text |-> <<>>, remaining |-> remaining]
     ELSE IF Len(shown) = 1 THEN [text |-> shown[1], remaining |-> remaining]
     ELSE IF Len(shown) = 2
       THEN [text |-> shown[1] \o <<" ","a","n","d"," ">> \o shown[2], remaining |-> remaining]
     ELSE [text |-> join(SubSeq(shown, 1, Len(shown) - 1), <<","," ">>)
                      \o <<","," ","a","n","d"," ">> \o shown[Len(shown)],
           remaining |-> remaining]

Null == <<"<null>">>

(* const shortened = Array.from(new Set(files)).map((f) => shortPath(f)) *)
shortened(files) == [k \in 1..Len(uniq(files)) |-> shortPath(uniq(files)[k])]

actionPhrase(verb, files, maxShow) ==
  LET r == joinNice(shortened(files), maxShow)
  IN IF r.text = <<>> THEN Null
     ELSE IF r.remaining > 0
       THEN verb \o <<" ">> \o r.text \o <<" ","(","+">> \o numStr(r.remaining) \o <<" ","m","o","r","e",")">>
     ELSE verb \o <<" ">> \o r.text

VerbAdded == <<"A","d","d","e","d">>
VerbUpdated == <<"U","p","d","a","t","e","d">>
VerbDeleted == <<"D","e","l","e","t","e","d">>
VerbRenamed == <<"R","e","n","a","m","e","d">>
VerbCopied == <<"C","o","p","i","e","d">>

bucketTotal(b) ==
  Len(b.added) + Len(b.modified) + Len(b.deleted)
    + Len(b.renamed) + Len(b.copied) + Len(b.other)

SmallLimit == 3
BigLimit == 6

(* const small = total <= 3 *)
isSmall(total) == total <= SmallLimit

(* variant that shows three names whatever the size of the change set *)
maxShowOfThree(total) == 3

(* const maxShow = small ? 3 : 2 *)
maxShowOf(total) == IF isSmall(total) THEN 3 ELSE 2

(* variant that always lets the Renamed and Copied phrases through *)
includePairsAlways(total, size) == TRUE

(* variant without the "only change type" exception *)
includePairsSmallOnly(total, size) == isSmall(total)

(* small || (total > 0 && bucket.length === total) *)
includePairs(total, size) == isSmall(total) \/ (total > 0 /\ size = total)

(* variant that pushes the Deleted phrase before the Updated one *)
subjectPhrasesDeletedFirst(b) ==
  LET total == bucketTotal(b)
      maxShow == maxShowOf(total)
  IN <<actionPhrase(VerbAdded, b.added, maxShow),
       actionPhrase(VerbDeleted, b.deleted, maxShow),
       actionPhrase(VerbUpdated, b.modified, maxShow),
       IF includePairs(total, Len(b.renamed))
         THEN actionPhrase(VerbRenamed, b.renamed, maxShow) ELSE Null,
       IF includePairs(total, Len(b.copied))
         THEN actionPhrase(VerbCopied, b.copied, maxShow) ELSE Null>>

(* the five phrases in the order in which they are pushed; null when absent *)
subjectPhrases(b) ==
  LET total == bucketTotal(b)
      maxShow == maxShowOf(total)
  IN <<actionPhrase(VerbAdded, b.added, maxShow),
       actionPhrase(VerbUpdated, b.modified, maxShow),
       actionPhrase(VerbDeleted, b.deleted, maxShow),
       IF includePairs(total, Len(b.renamed))
         THEN actionPhrase(VerbRenamed, b.renamed, maxShow) ELSE Null,
       IF includePairs(total, Len(b.copied))
         THEN actionPhrase(VerbCopied, b.copied, maxShow) ELSE Null>>

(* if (x) parts.push(x), five times *)
RECURSIVE dropNull(_)
dropNull(xs) ==
  IF xs = <<>> THEN <<>>
  ELSE IF Head(xs) = Null THEN dropNull(Tail(xs))
  ELSE <<Head(xs)>> \o dropNull(Tail(xs))

subjectParts(b) == dropNull(subjectPhrases(b))

(* variant that appends the count to every big change set, named or not *)
withCountAlways(parts, total) ==
  IF total > BigLimit
    THEN (IF parts = <<>> THEN <<"U","p","d","a","t","e","d">> \o <<" ">> \o numStr(total) \o <<" ","f","i","l","e","s">>
                          ELSE join(parts, <<";"," ">>))
           \o <<" ","(">> \o numStr(total) \o <<" ","f","i","l","e","s",")">>
  ELSE IF parts = <<>>
    THEN (IF total = 1 THEN <<"U","p","d","a","t","e","d"," ","1"," ","f","i","l","e">> ELSE <<"U","p","d","a","t","e","d">> \o <<" ">> \o numStr(total) \o <<" ","f","i","l","e","s">>)
  ELSE join(parts, <<";"," ">>)

(* the three returns of buildSuggestedSubject *)
withCount(parts, total) ==
  IF parts = <<>>
    THEN (IF total = 1 THEN <<"U","p","d","a","t","e","d"," ","1"," ","f","i","l","e">> ELSE <<"U","p","d","a","t","e","d">> \o <<" ">> \o numStr(total) \o <<" ","f","i","l","e","s">>)
  ELSE IF ~isSmall(total) /\ total > BigLimit
    THEN join(parts, <<";"," ">>) \o <<" ","(">> \o numStr(total) \o <<" ","f","i","l","e","s",")">>
  ELSE join(parts, <<";"," ">>)

buildSuggestedSubject(b) == withCount(subjectParts(b), bucketTotal(b))

(* variant without the line that counts the entries left out *)
formatSectionNoTrailer(title, items, limit) ==
  LET shown == firstN(items, limit)
  IN IF items = <<>> THEN <<>>
     ELSE <<title \o <<":">>>>
            \o [k \in 1..Len(shown) |-> <<"-"," ">> \o strOf(shown[k])]

(* formatSection(title, items, limit): the lines of one section *)
formatSection(title, items, limit) ==
  LET shown == firstN(items, limit)
      remaining == Len(items) - Len(shown)
  IN IF items = <<>> THEN <<>>
     ELSE <<title \o <<":">>>>
            \o [k \in 1..Len(shown) |-> <<"-"," ">> \o strOf(shown[k])]
            \o (IF remaining > 0
                  THEN <<<<"-"," ","ELLIPSIS","a","n","d"," ">> \o numStr(remaining) \o <<" ","m","o","r","e">>>>
                  ELSE <<>>)

LIMIT_ADDED == 12
LIMIT_MODIFIED == 14
LIMIT_DELETED == 8
LIMIT_OTHER == 6

bodyLines(b) ==
  formatSection(<<"A","d","d","e","d">>, b.added, LIMIT_ADDED)
    \o formatSection(<<"M","o","d","i","f","i","e","d">>, b.modified, LIMIT_MODIFIED)
    \o formatSection(<<"D","e","l","e","t","e","d">>, b.deleted, LIMIT_DELETED)
    \o formatSection(<<"R","e","n","a","m","e","d">>, b.renamed, LIMIT_OTHER)
    \o formatSection(<<"C","o","p","i","e","d">>, b.copied, LIMIT_OTHER)
    \o formatSection(<<"O","t","h","e","r">>, b.other, LIMIT_OTHER)

(* variant without the placeholder for an empty list of lines *)
buildBodyNoPlaceholder(b) == join(bodyLines(b), <<"LF">>)

buildBody(b) ==
  IF bodyLines(b) = <<>> THEN <<"F","i","l","e","s",":","LF","-"," ","(","n","o"," ","f","i","l","e"," ","l","i","s","t"," ","a","v","a","i","l","a","b","l","e",")">>
  ELSE join(bodyLines(b), <<"LF">>)

(* ---------------------------------------------------------------------- *)
(* Inputs of the generator: the text of git diff --cached --name-status    *)
(* ---------------------------------------------------------------------- *)
LongPathSrc ==
  <<"s","r","c","/","c","o","m","p","o","n","e","n","t","s","/","w","i","d","g","e","t","s","/","L","o","n","g","C","o","m","p","o","n","e","n","t","N","a","m","e",".","t","s","x">>
LongPathLib ==
  <<"l","i","b","/","c","o","m","p","o","n","e","n","t","s","/","w","i","d","g","e","t","s","/","L","o","n","g","C","o","m","p","o","n","e","n","t","N","a","m","e",".","t","s","x">>

LineAddedUpper == <<"A","TAB","B">>
LineAddedLower == <<"A","TAB","a">>
LineModified == <<"M","TAB","m">>
LineDeleted == <<"D","TAB","d">>
LineRenamed == <<"R","1","0","0","TAB","o","TAB","n">>
LineCopied == <<"C","7","5","TAB","o","TAB","n">>
LineRenamedOnePath == <<"R","1","0","0","TAB","o">>
LineUnmerged == <<"U","TAB","u">>
LineBlank == <<" "," ">>
LineBlankPath == <<"A","TAB"," ","TAB","x">>
LineAddedLongSrc == <<"A","TAB">> \o LongPathSrc
LineAddedLongLib == <<"A","TAB">> \o LongPathLib
LineStatusOnly == <<"X">>

LineUniverse ==
  {LineAddedUpper, LineAddedLower, LineModified, LineDeleted, LineRenamed,
   LineCopied, LineRenamedOnePath, LineUnmerged, LineBlank, LineBlankPath,
   LineAddedLongSrc, LineAddedLongLib, LineStatusOnly}

(* texts of at most MaxLines lines of the universe *)
SmallTexts ==
  {join(ls, <<"LF">>) : ls \in UNION {[1..n -> LineUniverse] : n \in 0..MaxLines}}

(* texts with a given number of well-formed records of each kind, on
   distinct short paths, listed from the highest number down *)
Kinds == {"A", "M", "D", "R", "C", "U"}

RECURSIVE sumOver(_, _)
sumOver(f, S) ==
  IF S = {} THEN 0
  ELSE LET x == CHOOSE y \in S : TRUE IN f[x] + sumOver(f, S \ {x})

CountVectors ==
  {c \in [Kinds -> 0..MaxFiles] : sumOver(c, Kinds) <= MaxFiles}

recordLine(kind, k) ==
  IF kind = "R" THEN <<"R","1","0","0">> \o <<"TAB","r">> \o numStr(k) \o <<"TAB","s">> \o numStr(k)
  ELSE IF kind = "C" THEN <<"C","7","5">> \o <<"TAB","c">> \o numStr(k) \o <<"TAB","e">> \o numStr(k)
  ELSE <<kind, "TAB", LowerChar(kind)>> \o numStr(k)

recordLines(kind, n) == [k \in 1..n |-> recordLine(kind, n + 1 - k)]

countedText(c) ==
  join(recordLines("U", c["U"]) \o recordLines("C", c["C"]) \o recordLines("R", c["R"])
         \o recordLines("D", c["D"]) \o recordLines("M", c["M"]) \o recordLines("A", c["A"]),
       <<"LF">>)

(* ---------------------------------------------------------------------- *)
(* State of one commit invocation                                          *)
(* ---------------------------------------------------------------------- *)
(* The repository is seen through the paths whose staged content differs
   from HEAD (index) and the paths with changes that are not staged
   (worktree). The git calls are taken to succeed. *)
RepoPaths == {<<"f">>}

(* answers typed at the summary prompt; the validator refuses more than
   72 characters *)
SubjectInputs == {<<>>, <<" ","f","i","x"," ">>}

FlagNoVerify == <<"-","-","n","o","-","v","e","r","i","f","y">>
FlagAmend == <<"-","-","a","m","e","n","d">>
FlagSignoff == <<"-","-","s","i","g","n","o","f","f">>

VARIABLES
  cpc,         \* position inside the action callback of commitCmd
  inRepo,      \* what inGitRepo() answers
  index0,      \* the index when the command was started
  index,       \* the index now
  worktree,    \* paths with unstaged changes
  nameStatus,  \* text returned by git diff --cached --name-status
  entries,     \* parseNameStatus(nameStatus)
  buckets,     \* bucketize(entries)
  parts,       \* the phrases pushed by buildSuggestedSubject
  suggested,   \* buildSuggestedSubject(buckets)
  body,        \* buildBody(buckets)
  subject,     \* subjectInput.trim() || suggested
  args,        \* the argument list of the git commit call
  commits      \* number of commits created by this invocation

messageVars == <<nameStatus, entries, buckets, parts, suggested, body>>
repoVars == <<inRepo, index0, index, worktree, commits>>
commitVars == <<cpc, messageVars, repoVars, subject, args>>

CommitInit ==
  /\ cpc = "start"
  /\ inRepo = TRUE
  /\ index0 = {}
  /\ index = {}
  /\ worktree = {}
  /\ nameStatus = <<>>
  /\ entries = <<>>
  /\ buckets = EmptyBuckets
  /\ parts = <<>>
  /\ suggested = <<>>
  /\ body = <<>>
  /\ subject = <<>>
  /\ args = <<>>
  /\ commits = 0

(* gu commit is started somewhere: inside a repository or not, with some
   paths staged and some changed but not staged *)
Invoke ==
  /\ cpc = "start"
  /\ \E r \in BOOLEAN, staged \in SUBSET RepoPaths, unstaged \in SUBSET RepoPaths :
       /\ inRepo' = r
       /\ index0' = staged
       /\ index' = staged
       /\ worktree' = unstaged
  /\ cpc' = "inGitRepo"
  /\ UNCHANGED <<messageVars, subject, args, commits>>

(* commit.ts lines 208-211: Deno.exit(1) outside a repository *)
CheckRepo ==
  /\ cpc = "inGitRepo"
  /\ cpc' = IF inRepo THEN "status" ELSE "exited"
  /\ UNCHANGED <<messageVars, repoVars, subject, args>>

(* commit.ts lines 213-217: git status --porcelain, return when it is empty *)
Status ==
  /\ cpc = "status"
  /\ cpc' = IF index \cup worktree = {} THEN "nochanges" ELSE "add"
  /\ UNCHANGED <<messageVars, repoVars, subject, args>>

(* commit.ts line 220: git add --all stages every change *)
AddAll ==
  /\ cpc = "add"
  /\ index' = index \cup worktree
  /\ worktree' = {}
  /\ cpc' = "diff"
  /\ UNCHANGED <<messageVars, inRepo, index0, commits, subject, args>>

(* commit.ts line 223: git diff --cached --name-status returns its text *)
ReadNameStatus ==
  /\ cpc = "diff"
  /\ \/ \E text \in SmallTexts : nameStatus' = text
     \/ \E c \in CountVectors : nameStatus' = countedText(c)
  /\ cpc' = "read"
  /\ UNCHANGED <<entries, buckets, parts, suggested, body>>
  /\ UNCHANGED <<repoVars, subject, args>>

(* commit.ts lines 224-232: parse, return when empty, else build the message *)
GenerateMessage ==
  /\ cpc = "read"
  /\ entries' = parseNameStatus(nameStatus)
  /\ IF entries' = <<>>
       THEN /\ cpc' = "nothing"
            /\ UNCHANGED <<buckets, parts, suggested, body>>
       ELSE /\ cpc' = "message"
            /\ buckets' = bucketize(entries')
            /\ parts' = subjectParts(buckets')
            /\ suggested' = buildSuggestedSubject(buckets')
            /\ body' = buildBody(buckets')
  /\ UNCHANGED nameStatus
  /\ UNCHANGED <<repoVars, subject, args>>

(* commit.ts lines 234-250: the summary prompt; an empty answer keeps the
   suggestion *)
PromptSubject ==
  /\ cpc = "message"
  /\ \E subjectInput \in SubjectInputs :
       subject' = IF trim(subjectInput) # <<>> THEN trim(subjectInput) ELSE suggested
  /\ cpc' = "confirm"
  /\ UNCHANGED <<messageVars, repoVars, args>>

(* commit.ts lines 252-257: the confirmation; "Cancelled." on no *)
ConfirmCommit ==
  /\ cpc = "confirm"
  /\ \E ok \in BOOLEAN : cpc' = IF ok THEN "commit" ELSE "cancelled"
  /\ UNCHANGED <<messageVars, repoVars, subject, args>>

(* commit.ts lines 259-265: git commit -m subject -m body with the flags *)
Commit ==
  /\ cpc = "commit"
  /\ \E verify \in BOOLEAN, amend \in BOOLEAN, signoff \in BOOLEAN :
       args' = <<<<"c","o","m","m","i","t">>, <<"-","m">>, subject, <<"-","m">>, body>>
                 \o (IF ~verify THEN <<FlagNoVerify>> ELSE <<>>)
                 \o (IF amend THEN <<FlagAmend>> ELSE <<>>)
                 \o (IF signoff THEN <<FlagSignoff>> ELSE <<>>)
  /\ index' = {}
  /\ commits' = commits + 1
  /\ cpc' = "done"
  /\ UNCHANGED <<messageVars, inRepo, index0, worktree, subject>>

CommitNext ==
  \/ Invoke
  \/ CheckRepo
  \/ Status
  \/ AddAll
  \/ ReadNameStatus
  \/ GenerateMessage
  \/ PromptSubject
  \/ ConfirmCommit
  \/ Commit

(* ---------------------------------------------------------------------- *)
(* The helpers of the generator applied on their own                       *)
(* ---------------------------------------------------------------------- *)
(* items handed to joinNice: short names, the empty string among them *)
ItemUniverse == {<<>>, <<"a">>, <<"b">>, <<"c">>, <<"d">>}

ItemLists == UNION {[1..n -> ItemUniverse] : n \in 0..MaxItems}

Name26 ==
  <<"a","b","c","d","e","f","g","h","i","j","k","l","m",
    "n","o","p","q","r","s","t","u","v","w","x","y","z">>

Slashes27 == [k \in 1..27 |-> "/"]

(* paths handed to shortPath: short ones, ones of exactly 26 and of 27
   characters, long ones with a short tail, with a short and with a long
   basename, with a trailing slash, of slashes only *)
CorePaths ==
  {<<>>, <<"a">>, <<"a","/","b">>, <<"a"," ","b">>,
   Name26, Name26 \o <<"a">>,
   <<"d","/">> \o Name26, <<"/">> \o Name26,
   <<"d","/">> \o Name26 \o <<"a">>,
   Name26 \o <<"a","/">>,
   Name26 \o <<"/","b","/","c",".","t","s">>,
   LongPathSrc, Slashes27}

Paddings == {<<>>, <<" ">>, <<"TAB">>}

PathUniverse == {l \o p \o r : l \in Paddings, p \in CorePaths, r \in Paddings}

(* name of the k-th item of a bucket; the names are in sorted order *)
itemName(letter, k) == <<letter, Digits[(k \div 10) + 1], Digits[(k % 10) + 1]>>

itemsOf(letter, n) == [k \in 1..n |-> itemName(letter, k)]

(* sizes of a section: empty, one entry, and around its cap *)
sizesAround(limit) == {0, 1} \cup (limit..(limit + MaxOver))

SectionSizes ==
  [added : sizesAround(LIMIT_ADDED), modified : sizesAround(LIMIT_MODIFIED),
   deleted : sizesAround(LIMIT_DELETED), renamed : sizesAround(LIMIT_OTHER),
   copied : sizesAround(LIMIT_OTHER), other : sizesAround(LIMIT_OTHER)]

bucketsOfSizes(n) ==
  [added |-> itemsOf("a", n.added), modified |-> itemsOf("m", n.modified),
   deleted |-> itemsOf("d", n.deleted), renamed |-> itemsOf("r", n.renamed),
   copied |-> itemsOf("c", n.copied), other |-> itemsOf("o", n.other)]

VARIABLES
  fn,        \* the helper that was called, "none" before the call
  fnArgs,    \* its arguments
  fnResult   \* what it returned

fnVars == <<fn, fnArgs, fnResult>>

FnInit ==
  /\ fn = "none"
  /\ fnArgs = <<>>
  /\ fnResult = <<>>

(* commit.ts line 108: joinNice(shortened, maxShow) *)
CallJoinNice ==
  /\ fn = "none"
  /\ \E items \in ItemLists, maxShow \in 1..MaxItems :
       /\ fn' = "joinNice"
       /\ fnArgs' = [items |-> items, maxShow |-> maxShow]
       /\ fnResult' = joinNice(items, maxShow)

(* commit.ts line 107: shortPath(f) *)
CallShortPath ==
  /\ fn = "none"
  /\ \E p \in PathUniverse :
       /\ fn' = "shortPath"
       /\ fnArgs' = [p |-> p]
       /\ fnResult' = shortPath(p)

(* commit.ts line 232: buildBody(buckets) *)
CallBuildBody ==
  /\ fn = "none"
  /\ \E n \in SectionSizes :
       /\ fn' = "buildBody"
       /\ fnArgs' = [b |-> bucketsOfSizes(n)]
       /\ fnResult' = buildBody(bucketsOfSizes(n))

FnNext ==
  \/ CallJoinNice
  \/ CallShortPath
  \/ CallBuildBody

allVars == <<vars, commitVars, fnVars>>

(* ---------------------------------------------------------------------- *)
(* Specifications                                                          *)
(* ---------------------------------------------------------------------- *)
(* both commands and the helpers start from their entry points *)
Init == CleanBranchesInit /\ CommitInit /\ FnInit

(* one clean-branches invocation; the commit command is not running *)
Spec == Init /\ [][Next /\ UNCHANGED <<commitVars, fnVars>>]_allVars

(* one call is awaited at a time and the callback resumes when it settles *)
FairSpec == Spec /\ WF_allVars(Next /\ UNCHANGED <<commitVars, fnVars>>)

(* one commit invocation; clean-branches is not running *)
SpecCommit == Init /\ [][CommitNext /\ UNCHANGED <<vars, fnVars>>]_allVars

(* calls of joinNice, shortPath and buildBody on inputs of their own *)
SpecFn == Init /\ [][FnNext /\ UNCHANGED <<vars, commitVars>>]_allVars

(* ---------------------------------------------------------------------- *)
(* Properties of clean-branches                                            *)
(* ---------------------------------------------------------------------- *)
Branch(log) == [k \in 1..Len(log) |-> log[k].branch]

(* the candidate filter has run *)
Listed == pc \notin {"ListCandidates", "Aborted"} \/ exitCause = "prLookupError"

(* the checkbox has been built from the candidates *)
PromptShown ==
  \/ pc \in {"UserSelect", "ConfirmDelete", "SafeDeleteBatch", "ConfirmForce",
             "ForceDeleteBatch"}
  \/ pc = "Done" /\ exitCause # "noCandidates"

(* the PR request returned and the correlation loop has run over its result *)
Correlated == fetchResult \in {"ok", "notOk"} /\ pc \notin {"FetchPRs", "Correlate"}

(* the safe loop has gone through the selection *)
SafePassDone ==
  \/ pc \in {"ConfirmForce", "ForceDeleteBatch"}
  \/ pc = "Done" /\ exitCause \in {"allDeleted", "forceDeclined", "completed"}

(* PRs whose head ref equals b when both are lower-cased *)
MatchingPRs(b) ==
  {k \in 1..Len(prs) : toLowerCase(prs[k].headRef) = toLowerCase(b)}

Min(S) == CHOOSE x \in S : \A y \in S : x <= y
Max(S) == CHOOSE x \in S : \A y \in S : x >= y

(* C1, as stated: the candidate list never contains the current branch, a
   branch of the protected set, or a branch whose name begins with
   "release/". *)
C1_NoCurrentProtectedOrRelease ==
  \A k \in 1..Len(candidates) :
    /\ candidates[k] # current
    /\ candidates[k] \notin protectedSet
    /\ ~startsWith(candidates[k], ReleasePrefix)

(* C1, amended: the candidate list never contains the current branch nor a
   branch of the protected set; a "release/..." branch is kept out only when
   it is in the protected set. *)
C1_NoCurrentOrProtected ==
  \A k \in 1..Len(candidates) :
    /\ candidates[k] # current
    /\ candidates[k] \notin protectedSet

C1_Witness ==
  /\ pc = "UserSelect"
  /\ current \in Range(all)
  /\ Range(all) \cap protectedSet # {}
  /\ NameRelease \in Range(candidates)

(* C2: without --allow-pr no branch with a recorded open PR can be ticked, so
   none is in the selection; with --allow-pr every candidate can be ticked. *)
C2_PrBranchesNotSelectable ==
  PromptShown =>
    /\ ~optAllowPr => /\ selectable \cap DOMAIN prByBranch = {}
                      /\ Range(selections) \cap DOMAIN prByBranch = {}
    /\ optAllowPr => selectable = Range(candidates)

C2_Witness ==
  /\ pc = "ConfirmDelete"
  /\ ~optAllowPr
  /\ DOMAIN prByBranch # {}
  /\ selections # <<>>

(* C3: every candidate whose lower-cased name equals the lower-cased head ref
   of some open PR is recorded in prByBranch, also when several candidates
   differ only in letter case. *)
C3_EveryMatchRecorded ==
  Correlated =>
    \A b \in Range(candidates) : MatchingPRs(b) # {} => b \in DOMAIN prByBranch

(* C4: after the safe pass, failed is the selection restricted to the
   branches whose git branch -d failed, deleted is the selection restricted
   to the others, and the two are disjoint and cover the selection. *)
C4_FailedIsExactlyTheFailures ==
  SafePassDone =>
    LET bad == {safeLog[k].branch : k \in {j \in 1..Len(safeLog) : ~safeLog[j].ok}}
        good == {safeLog[k].branch : k \in {j \in 1..Len(safeLog) : safeLog[j].ok}}
    IN /\ failed = filterSeq(selections, bad)
       /\ deleted = filterSeq(selections, good)
       /\ Range(failed) \cap Range(deleted) = {}
       /\ Range(failed) \cup Range(deleted) = Range(selections)
       /\ Len(failed) + Len(deleted) = Len(selections)

C4_Witness ==
  /\ pc = "ConfirmForce"
  /\ Len(selections) = 3
  /\ failed = <<selections[2]>>
  /\ deleted = <<selections[1], selections[3]>>

(* C5: git branch -D is issued only after the force prompt was accepted and
   only for branches of failed, never for a branch the safe pass deleted;
   declining the prompt issues none. *)
C5_ForceOnlyForFailed ==
  /\ forceLog # <<>> => forceAccepted /\ SafePassDone
  /\ \A k \in 1..Len(forceLog) :
       /\ forceLog[k].branch \in Range(failed)
       /\ forceLog[k].branch \notin Range(deleted)
       /\ \E j \in 1..Len(safeLog) :
            safeLog[j].branch = forceLog[k].branch /\ ~safeLog[j].ok
  /\ exitCause = "forceDeclined" => forceLog = <<>>

C5_Witness ==
  /\ forceLog # <<>>
  /\ deleted # <<>>
  /\ forceAccepted

(* C6: the safe pass issues git branch -d once for every selected branch, in
   the order of the selection, whatever the earlier attempts returned. *)
C6_OneSafeAttemptEachInOrder ==
  /\ Len(safeLog) <= Len(selections)
  /\ \A k \in 1..Len(safeLog) : safeLog[k].branch = selections[k]
  /\ pc = "SafeDeleteBatch" => Len(safeLog) = idx - 1
  /\ SafePassDone => Branch(safeLog) = selections

C6_Witness ==
  /\ SafePassDone
  /\ Len(selections) >= 2
  /\ ~safeLog[1].ok
  /\ Len(safeLog) = Len(selections)

(* C7: the forced pass issues git branch -D once for every branch of failed,
   in order; a forced delete that fails is reported for that branch only and
   the pass and the command go on to their normal end. *)
C7_OneForceAttemptEachInOrder ==
  /\ Len(forceLog) <= Len(failed)
  /\ \A k \in 1..Len(forceLog) : forceLog[k].branch = failed[k]
  /\ pc = "ForceDeleteBatch" => Len(forceLog) = idx - 1
  /\ forceAccepted /\ pc \in {"Done", "Aborted"} =>
       /\ pc = "Done" /\ exitCause = "completed"
       /\ Branch(forceLog) = failed
       /\ forceErrors =
            filterSeq(failed, {forceLog[k].branch :
                                 k \in {j \in 1..Len(forceLog) : ~forceLog[j].ok}})
       /\ forceDeleted =
            filterSeq(failed, {forceLog[k].branch :
                                 k \in {j \in 1..Len(forceLog) : forceLog[j].ok}})

C7_Witness ==
  /\ exitCause = "completed"
  /\ Len(failed) >= 2
  /\ ~forceLog[1].ok
  /\ Len(forceLog) = Len(failed)

(* C8: a PR lookup that fails (network error, non-success response or
   unreadable body) never aborts the command: it gives an empty PR list and
   the command goes on as it does without PR data. *)
C8_LookupFailureNeverAborts ==
  fetchResult \in {"network", "notOk", "badBody"} =>
    /\ pc # "Aborted"
    /\ prs = <<>>
    /\ pc \notin {"FetchPRs", "Correlate"} =>
         prByBranch = EmptyMap /\ selectable = Range(candidates)

(* C9, as stated: a branch matched by several open PRs is recorded with the
   first of them in API return order. *)
C9_FirstMatchWins ==
  Correlated =>
    \A b \in DOMAIN prByBranch :
      /\ MatchingPRs(b) # {}
      /\ prByBranch[b] = prs[Min(MatchingPRs(b))]

(* C9, amended: a branch matched by several open PRs is recorded with exactly
   one of them, the last in API return order. *)
C9_LastMatchWins ==
  Correlated =>
    \A b \in DOMAIN prByBranch :
      /\ MatchingPRs(b) # {}
      /\ prByBranch[b] = prs[Max(MatchingPRs(b))]

C9_Witness ==
  /\ Correlated
  /\ \E b \in DOMAIN prByBranch : Cardinality(MatchingPRs(b)) >= 2

(* C10: the candidate list is the branch list, in its order, restricted to
   exactly the branches that are neither in the protected set nor the
   current branch. *)
C10_CandidatesAreTheFilteredList ==
  Listed =>
    /\ Range(candidates) =
         {b \in Range(all) : b \notin protectedSet /\ b # current}
    /\ Len(candidates) = Cardinality(Range(candidates))
    /\ \A i, j \in 1..Len(candidates) :
         i < j => \E a, b \in 1..Len(all) :
                    a < b /\ all[a] = candidates[i] /\ all[b] = candidates[j]

C10_Witness ==
  /\ all = <<NameMain, NameFa, NameFaCap>>
  /\ current = NameFa
  /\ NameMain \in protectedSet
  /\ candidates = <<NameFaCap>>
  /\ pc = "UserSelect"

(* position of a phase in the pipeline *)
PhaseRank(p) ==
  CASE p = "ListCandidates" -> 1
    [] p = "FetchPRs" -> 2
    [] p = "Correlate" -> 3
    [] p = "UserSelect" -> 4
    [] p = "ConfirmDelete" -> 5
    [] p = "SafeDeleteBatch" -> 6
    [] p = "ConfirmForce" -> 7
    [] p = "ForceDeleteBatch" -> 8
    [] p = "Done" -> 9
    [] p = "Aborted" -> 9

(* C11: the phases are visited only in the order ListCandidates, FetchPRs
   (optional), Correlate, UserSelect, ConfirmDelete, SafeDeleteBatch,
   ConfirmForce (only when a safe delete failed), ForceDeleteBatch, Done; a
   phase that was left is never entered again; and a run in which no
   external call raises out of the callback eventually reaches Done. *)
C11_LinearPipelineReachesDone ==
  /\ [][/\ pc' # pc => PhaseRank(pc') > PhaseRank(pc)
        /\ pc' # pc /\ pc' = "Correlate" => pc = "FetchPRs"
        /\ pc' # pc /\ pc' = "SafeDeleteBatch" => pc = "ConfirmDelete"
        /\ pc' # pc /\ pc' = "ConfirmForce" => pc = "SafeDeleteBatch" /\ failed' # <<>>
        /\ pc' # pc /\ pc' = "ForceDeleteBatch" => pc = "ConfirmForce"
        /\ pc \in {"Done", "Aborted"} => pc' = pc]_vars
  /\ ([](pc # "Aborted") => <>(pc = "Done"))

C11_Witness ==
  /\ pc = "Done"
  /\ exitCause = "completed"
  /\ fetchResult = "ok"
  /\ forceLog # <<>>

(* C12: when nothing is selected, or the delete confirmation is declined, the
   run ends normally and no git branch -d or -D was issued in it. *)
C12_NoSelectionOrDeclineDeletesNothing ==
  exitCause \in {"noSelection", "cancelled"} =>
    /\ pc = "Done"
    /\ safeLog = <<>>
    /\ forceLog = <<>>
    /\ deleted = <<>>
    /\ forceDeleted = <<>>

C12_Witness ==
  /\ pc = "Done"
  /\ exitCause = "cancelled"
  /\ Len(selections) >= 2

(* ---------------------------------------------------------------------- *)
(* Properties of the commit message generator                              *)
(* ---------------------------------------------------------------------- *)
Generated == cpc = "message"

BucketNames == {"added", "modified", "deleted", "renamed", "copied", "other"}

endsWith(s, suffix) ==
  Len(s) >= Len(suffix) /\ SubSeq(s, Len(s) - Len(suffix) + 1, Len(s)) = suffix

CountIn(xs, x) == Cardinality({k \in 1..Len(xs) : xs[k] = x})

(* the bucket an entry belongs to by its kind *)
BucketOfKind(kind) ==
  CASE kind = "A" -> "added"
    [] kind = "M" -> "modified"
    [] kind = "D" -> "deleted"
    [] kind = "R" -> "renamed"
    [] kind = "C" -> "copied"
    [] OTHER -> "other"

(* the string under which an entry is listed *)
DisplayOf(e) ==
  IF e.kind \in {"R", "C"} \/ "file" \notin DOMAIN e THEN pairText(e) ELSE e.file

EntriesOf(name) == {k \in 1..Len(entries) : BucketOfKind(entries[k].kind) = name}

Total == Len(entries)

(* the phrase of a verb inside parts, Null when there is none *)
PhraseOf(verb) ==
  IF \E k \in 1..Len(parts) : startsWith(parts[k], verb \o <<" ">>)
    THEN parts[CHOOSE k \in 1..Len(parts) : startsWith(parts[k], verb \o <<" ">>)]
    ELSE Null

MoreSuffix(k) == <<" ","(","+">> \o numStr(k) \o <<" ","m","o","r","e",")">>
FilesSuffix(n) == <<" ","(">> \o numStr(n) \o <<" ","f","i","l","e","s",")">>
FallbackSubject(n) ==
  IF n = 1 THEN <<"U","p","d","a","t","e","d"," ","1"," ","f","i","l","e">> ELSE <<"U","p","d","a","t","e","d">> \o <<" ">> \o numStr(n) \o <<" ","f","i","l","e","s">>

HasMoreSuffix(phrase) == \E k \in 1..(MaxFiles + MaxLines + 1) : endsWith(phrase, MoreSuffix(k))

VerbBuckets ==
  {<<VerbAdded, "added">>, <<VerbUpdated, "modified">>, <<VerbDeleted, "deleted">>,
   <<VerbRenamed, "renamed">>, <<VerbCopied, "copied">>}

(* the distinct non-empty shortened names of a bucket *)
DistinctNames(files) == {shortPath(files[k]) : k \in 1..Len(files)} \ {<<>>}

(* C13: every parsed entry has exactly one of the two shapes, and every
   entry of kind R or C carries a from-path and a to-path, also for a
   rename/copy line with a single path field. *)
C13_RenameCopyCarryBothPaths ==
  \A k \in 1..Len(entries) :
    LET e == entries[k]
    IN /\ ("file" \in DOMAIN e) # ({"from", "to"} \subseteq DOMAIN e)
       /\ e.kind \in {"R", "C"} => {"from", "to"} \subseteq DOMAIN e

(* C14: the six buckets partition the entries: each entry is in the bucket
   of its kind and in no other, and the bucket sizes add up to the number
   of entries. *)
C14_BucketsPartitionEntries ==
  Generated =>
    /\ bucketTotal(buckets) = Len(entries)
    /\ \A name \in BucketNames :
         /\ Len(buckets[name]) = Cardinality(EntriesOf(name))
         /\ Range(buckets[name]) = {DisplayOf(entries[k]) : k \in EntriesOf(name)}

C14_Witness ==
  /\ Generated
  /\ \A name \in BucketNames : buckets[name] # <<>>

(* C15, as stated: no bucket contains a display string twice. *)
C15_NoDuplicateInBucket ==
  Generated =>
    \A name \in BucketNames : Cardinality(Range(buckets[name])) = Len(buckets[name])

(* C15, amended: a bucket keeps repeated records: it contains a display
   string as many times as the input has records of that kind with that
   string, and the copies are next to each other. *)
C15_BucketKeepsRepeats ==
  Generated =>
    \A name \in BucketNames :
      \A x \in Range(buckets[name]) :
        /\ CountIn(buckets[name], x) =
             Cardinality({k \in EntriesOf(name) : DisplayOf(entries[k]) = x})
        /\ \A i, j \in 1..Len(buckets[name]) :
             i < j /\ buckets[name][i] = x /\ buckets[name][j] = x =>
               \A m \in i..j : buckets[name][m] = x

C15_Witness ==
  /\ Generated
  /\ \E name \in BucketNames : Cardinality(Range(buckets[name])) < Len(buckets[name])

(* code-unit order of the characters used here *)
CodePointOrder ==
  <<"TAB","LF","CR"," ","(",")","+","-",".","/",
    "0","1","2","3","4","5","6","7","8","9",
    "A","B","C","D","E","F","G","H","I","J","K","L","M",
    "N","O","P","Q","R","S","T","U","V","W","X","Y","Z",
    "_",
    "a","b","c","d","e","f","g","h","i","j","k","l","m",
    "n","o","p","q","r","s","t","u","v","w","x","y","z",
    "ELLIPSIS","ARROW">>

CodePoint(c) == CHOOSE k \in 1..Len(CodePointOrder) : CodePointOrder[k] = c

CodePointLessEq(x, y) ==
  compareWeights([k \in 1..Len(x) |-> CodePoint(x[k])], [k \in 1..Len(y) |-> CodePoint(y[k])]) <= 0

(* C16, as stated: every bucket is ascending in code-point order. *)
C16_SortedByCodePoint ==
  Generated =>
    \A name \in BucketNames :
      \A i \in 1..(Len(buckets[name]) - 1) :
        CodePointLessEq(buckets[name][i], buckets[name][i + 1])

(* C16, amended: every bucket is ascending in the order of localeCompare
   (letters compared without case first, lower case before upper case on a
   tie), so a lower-case-initial path can come before an upper-case-initial
   one. *)
C16_SortedByLocaleCompare ==
  Generated =>
    \A name \in BucketNames :
      \A i, j \in 1..Len(buckets[name]) :
        i < j => localeCompare(buckets[name][i], buckets[name][j]) <= 0

C16_Witness ==
  /\ Generated
  /\ buckets.added = <<<<"a">>, <<"B">>>>

FiveEmpty ==
  /\ buckets.added = <<>>
  /\ buckets.modified = <<>>
  /\ buckets.deleted = <<>>
  /\ buckets.renamed = <<>>
  /\ buckets.copied = <<>>

(* C17, as stated: the fallback subject is returned exactly when the Added,
   Modified, Deleted, Renamed and Copied buckets are all empty; otherwise
   the subject names a file. *)
C17_FallbackIffFiveEmpty ==
  Generated =>
    /\ (suggested = FallbackSubject(Total)) <=> FiveEmpty
    /\ ~FiveEmpty => parts # <<>>

HasName(files) == DistinctNames(files) # {}

PairsShown(files) == files # <<>> /\ (Total <= 3 \/ Len(files) = Total)

NoPhrase ==
  /\ ~HasName(buckets.added)
  /\ ~HasName(buckets.modified)
  /\ ~HasName(buckets.deleted)
  /\ ~PairsShown(buckets.renamed)
  /\ ~PairsShown(buckets.copied)

(* C17, amended: the fallback is taken exactly when no phrase is produced:
   Added, Modified and Deleted have no entry with a non-blank path, and the
   Renamed and the Copied bucket are each empty or left out (more than 3
   entries in total and the bucket is not the whole change set). *)
C17_FallbackIffNoPhrase ==
  Generated =>
    /\ parts = <<>> <=> NoPhrase
    /\ parts = <<>> => suggested = FallbackSubject(Total)
    /\ parts # <<>> => suggested # FallbackSubject(Total)

C17_Witness ==
  /\ Generated
  /\ suggested = FallbackSubject(Total)
  /\ buckets.renamed # <<>>
  /\ buckets.copied # <<>>

(* C18, as stated: with more than 6 entries the subject ends with
   "(N files)", with 6 or fewer it does not. *)
C18_CountSuffixIffBig ==
  Generated => (endsWith(suggested, FilesSuffix(Total)) <=> Total > 6)

(* C18, amended: with more than 6 entries and at least one phrase the
   subject is the phrases followed by " (N files)"; when no phrase was
   produced it is the fallback without that suffix; with 6 or fewer entries
   nothing is appended to the phrases. *)
C18_CountSuffixIffBigAndNamed ==
  Generated =>
    /\ parts # <<>> /\ Total > 6 =>
         suggested = join(parts, <<";"," ">>) \o FilesSuffix(Total)
    /\ parts # <<>> /\ Total <= 6 =>
         suggested = join(parts, <<";"," ">>) /\ ~endsWith(suggested, FilesSuffix(Total))
    /\ parts = <<>> =>
         suggested = FallbackSubject(Total) /\ ~endsWith(suggested, FilesSuffix(Total))

C18_Witness ==
  /\ Generated
  /\ Total = 7
  /\ parts # <<>>
  /\ endsWith(suggested, FilesSuffix(7))

(* the names a phrase shows and the count it reports, for a bucket *)
ShownLimit == IF Total <= 3 THEN 3 ELSE 2

(* C19, as stated: a phrase shows at most maxShow names, has "(+K more)"
   exactly when its bucket has more than maxShow entries, and names shown
   plus K is the number of entries of the bucket. *)
C19_ShownPlusMoreIsBucketSize ==
  Generated =>
    \A vb \in VerbBuckets :
      LET phrase == PhraseOf(vb[1])
          files == buckets[vb[2]]
          r == joinNice(shortened(files), ShownLimit)
          shown == joinShown(shortened(files), ShownLimit)
      IN phrase # Null =>
           /\ Len(shown) <= ShownLimit
           /\ HasMoreSuffix(phrase) <=> Len(files) > ShownLimit
           /\ Len(shown) + r.remaining = Len(files)

(* C19, amended: a phrase shows at most maxShow names (3 when the total is
   at most 3, else 2); it counts the distinct non-empty shortened names of
   its bucket: "(+K more)" is present exactly when there are more than
   maxShow of them, and names shown plus K is their number. *)
C19_ShownPlusMoreIsDistinctNames ==
  Generated =>
    \A vb \in VerbBuckets :
      LET phrase == PhraseOf(vb[1])
          files == buckets[vb[2]]
          d == Cardinality(DistinctNames(files))
          n == IF d <= ShownLimit THEN d ELSE ShownLimit
          shown == firstN(filterBoolean(uniq([k \in 1..Len(files) |-> shortPath(files[k])])), n)
          text == joinNice(shown, n).text
      IN phrase # Null =>
           /\ Len(shown) = n
           /\ n >= 1
           /\ HasMoreSuffix(phrase) <=> d > ShownLimit
           /\ phrase = vb[1] \o <<" ">> \o text
                         \o (IF d > n THEN MoreSuffix(d - n) ELSE <<>>)

C19_Witness ==
  /\ Generated
  /\ Total > 3
  /\ \E k \in 1..Len(parts) : endsWith(parts[k], MoreSuffix(3))

(* C20: the Renamed (Copied) phrase is in the subject exactly when that
   bucket is non-empty and either the total is at most 3 or the bucket
   holds every entry. *)
C20_PairPhraseIffSmallOrOnly ==
  Generated =>
    /\ PhraseOf(VerbRenamed) # Null <=>
         (buckets.renamed # <<>>
            /\ (Total <= 3 \/ Len(buckets.renamed) = Total))
    /\ PhraseOf(VerbCopied) # Null <=>
         (buckets.copied # <<>>
            /\ (Total <= 3 \/ Len(buckets.copied) = Total))
    /\ \A k \in 1..Len(parts) :
         startsWith(parts[k], VerbRenamed \o <<" ">>) \/ startsWith(parts[k], VerbCopied \o <<" ">>)
           => \E a, b \in 0..Len(suggested) :
                a <= b /\ SubSeq(suggested, a + 1, b) = parts[k]

C20_Witness ==
  /\ Generated
  /\ Total > 3
  /\ Len(buckets.renamed) = Total
  /\ PhraseOf(VerbRenamed) # Null

(* ---------------------------------------------------------------------- *)
(* Further properties of the commit command                                *)
(* ---------------------------------------------------------------------- *)
(* the elements of a finite set of numbers in ascending order *)
RECURSIVE Ascending(_)
Ascending(S) ==
  IF S = {} THEN <<>>
  ELSE LET m == CHOOSE x \in S : \A y \in S : x <= y
       IN <<m>> \o Ascending(S \ {m})

(* the maximal non-empty runs of s without the character c, in order *)
Runs(s, c) ==
  LET starts == {k \in 1..Len(s) : s[k] # c /\ (k = 1 \/ s[k - 1] = c)}
      stops == {k \in 1..Len(s) : s[k] = c} \cup {Len(s) + 1}
      endOf(k) == (CHOOSE q \in stops : q > k /\ \A r \in stops : r > k => q <= r) - 1
      order == Ascending(starts)
  IN [n \in 1..Len(order) |-> SubSeq(s, order[n], endOf(order[n]))]

(* s without the white space at its two ends *)
Stripped(s) ==
  LET inked == {k \in 1..Len(s) : s[k] \notin {" ", "TAB", "LF", "CR"}}
  IN IF inked = {} THEN <<>>
     ELSE SubSeq(s, CHOOSE k \in inked : \A m \in inked : k <= m,
                    CHOOSE k \in inked : \A m \in inked : k >= m)

(* the lines of the name-status text that are not empty after trimming *)
RecordLines ==
  LET raw == Runs(nameStatus, "LF")
      kept == Ascending({k \in 1..Len(raw) : Stripped(raw[k]) # <<>>})
  IN [n \in 1..Len(kept) |-> Stripped(raw[kept[n]])]

Parsed == cpc \in {"message", "nothing"}

SemicolonJoined(ps) ==
  IF ps = <<>> THEN <<>>
  ELSE ps[1] \o join([k \in 1..(Len(ps) - 1) |-> <<";"," ">> \o ps[k + 1]], <<>>)

VerbRank(phrase) ==
  CASE startsWith(phrase, VerbAdded \o <<" ">>) -> 1
    [] startsWith(phrase, VerbUpdated \o <<" ">>) -> 2
    [] startsWith(phrase, VerbDeleted \o <<" ">>) -> 3
    [] startsWith(phrase, VerbRenamed \o <<" ">>) -> 4
    [] startsWith(phrase, VerbCopied \o <<" ">>) -> 5
    [] OTHER -> 0

OneOfEach == [k \in Kinds |-> IF k \in {"A", "M", "D"} THEN 1 ELSE 0]

SubjectOneOfEach ==
  <<"A","d","d","e","d"," ","a","1",";"," ",
    "U","p","d","a","t","e","d"," ","m","1",";"," ",
    "D","e","l","e","t","e","d"," ","d","1">>

(* C21: the phrases of the subject stand in the order Added, Updated,
   Deleted, Renamed, Copied whatever the order of the records, the subject
   is these phrases joined by "; " (followed by the file count of a big
   change set and by nothing else), and for one added, one modified and one
   deleted record on short paths it is exactly
   "Added a1; Updated m1; Deleted d1". *)
C21_PhrasesJoinedInFixedOrder ==
  Generated /\ parts # <<>> =>
    /\ \A i, j \in 1..Len(parts) :
         i < j => 0 < VerbRank(parts[i]) /\ VerbRank(parts[i]) < VerbRank(parts[j])
    /\ suggested = SemicolonJoined(parts)
         \/ (Total > BigLimit /\ suggested = SemicolonJoined(parts) \o FilesSuffix(Total))
    /\ Total <= BigLimit => suggested = SemicolonJoined(parts)
    /\ nameStatus = countedText(OneOfEach) => suggested = SubjectOneOfEach

C21_Witness ==
  /\ Generated
  /\ nameStatus = countedText(OneOfEach)
  /\ startsWith(nameStatus, <<"D">>)
  /\ suggested = SubjectOneOfEach

(* C26: parsing returns for every text; a line that is empty after trimming
   gives no entry, every other line gives exactly one entry, whose kind is
   the first character of its first field and, unless the kind is R or C,
   whose path is the second tab-separated field when there is one and the
   first field otherwise. *)
C26_OneEntryPerNonBlankLine ==
  /\ cpc = "read" => Len(parseNameStatus(nameStatus)) = Len(RecordLines)
  /\ Parsed =>
       /\ Len(entries) = Len(RecordLines)
       /\ \A k \in 1..Len(entries) :
            LET fields == Runs(RecordLines[k], "TAB")
                e == entries[k]
            IN /\ e.kind = fields[1][1]
               /\ e.kind \notin {"R", "C"} =>
                    /\ "file" \in DOMAIN e
                    /\ e.file = IF Len(fields) >= 2 THEN fields[2] ELSE fields[1]

C26_Witness ==
  /\ cpc = "message"
  /\ nameStatus = LineBlank \o <<"LF">> \o LineStatusOnly
  /\ entries = <<[kind |-> "X", file |-> <<"X">>]>>

Stopped == cpc \in {"exited", "nochanges", "nothing", "cancelled"}

(* C28: when the command ends without the commit call (outside a
   repository, nothing to commit, nothing staged, or the confirmation
   declined) no commit was created and the index is what it was when the
   command was started. *)
C28_NoCommitLeavesIndexAsItWas ==
  Stopped => commits = 0 /\ index = index0

(* the lines with the first two exchanged, and with the first one moved
   to the end: the two reorderings from which every permutation is made *)
Reordered(ls) ==
  IF Len(ls) < 2 THEN {}
  ELSE {[k \in 1..Len(ls) |-> IF k = 1 THEN ls[2] ELSE IF k = 2 THEN ls[1] ELSE ls[k]],
        [k \in 1..Len(ls) |-> ls[(k % Len(ls)) + 1]]}

(* C29: the subject and the body stay the same when the lines of the input
   are reordered: they are the same for the two generating reorderings of
   every input, the inputs of at most MaxLines lines being closed under
   both. *)
C29_MessageIgnoresRecordOrder ==
  Generated =>
    \A ls \in Reordered(Runs(nameStatus, "LF")) :
      LET b == bucketize(parseNameStatus(join(ls, <<"LF">>)))
      IN /\ buildSuggestedSubject(b) = suggested
         /\ buildBody(b) = body

C29_Witness ==
  /\ Generated
  /\ nameStatus = LineAddedUpper \o <<"LF">> \o LineAddedLower
  /\ buckets.added = <<<<"a">>, <<"B">>>>
  /\ body = <<"A","d","d","e","d",":","LF","-"," ","a","LF","-"," ","B">>

(* ---------------------------------------------------------------------- *)
(* Properties of clean-branches, continued                                 *)
(* ---------------------------------------------------------------------- *)
Attempted == Range(Branch(safeLog)) \cup Range(Branch(forceLog))

(* C27: every branch for which git branch -d or -D was run is in the
   confirmed selection, the selection is part of the candidate list, and so
   no such branch is the current branch or in the protected set. *)
C27_DeletesOnlyConfirmedCandidates ==
  /\ Range(selections) \subseteq Range(candidates)
  /\ Attempted # {} => pc \in {"SafeDeleteBatch", "ConfirmForce", "ForceDeleteBatch", "Done"}
  /\ \A b \in Attempted :
       /\ b \in Range(selections)
       /\ b \in Range(candidates)
       /\ b # current
       /\ b \notin protectedSet

C27_Witness ==
  /\ safeLog # <<>>
  /\ forceLog # <<>>
  /\ current \in Range(all)
  /\ protectedSet \cap Range(all) # {}

(* ---------------------------------------------------------------------- *)
(* Properties of joinNice, shortPath and buildBody                         *)
(* ---------------------------------------------------------------------- *)
JoinCalled == fn = "joinNice"
ShortCalled == fn = "shortPath"
BodyCalled == fn = "buildBody"

(* the items in the order of their first occurrence, each once *)
FirstOfEach(items) ==
  LET firsts == Ascending({k \in 1..Len(items) : \A j \in 1..(k - 1) : items[j] # items[k]})
  IN [n \in 1..Len(firsts) |-> items[firsts[n]]]

NonEmptyOf(items) ==
  LET kept == Ascending({k \in 1..Len(items) : items[k] # <<>>})
  IN [n \in 1..Len(kept) |-> items[kept[n]]]

(* "", "A", "A and B", "A, B, and C", "A, B, C, and D" *)
NiceText(xs) ==
  CASE Len(xs) = 0 -> <<>>
    [] Len(xs) = 1 -> xs[1]
    [] Len(xs) = 2 -> xs[1] \o <<" ","a","n","d"," ">> \o xs[2]
    [] OTHER -> join([k \in 1..(Len(xs) - 1) |-> xs[k] \o <<","," ">>], <<>>)
                  \o <<"a","n","d"," ">> \o xs[Len(xs)]

(* what joinNice is said to return when its distinct items are ds *)
NiceResult(ds, maxShow) ==
  LET n == IF Len(ds) <= maxShow THEN Len(ds) ELSE maxShow
  IN [text |-> NiceText(SubSeq(ds, 1, n)), remaining |-> Len(ds) - n]

(* C22, as stated: the distinct items are the items without their repeats. *)
C22_JoinOverDistinctItems ==
  JoinCalled => fnResult = NiceResult(FirstOfEach(fnArgs.items), fnArgs.maxShow)

(* C22, amended: joinNice drops repeats and empty strings, shows the first
   min(n, maxShow) of the n items left, in their order, as "", "A",
   "A and B" or "A, B, and C", and reports n minus the number shown. *)
C22_JoinOverDistinctNonEmptyItems ==
  JoinCalled =>
    fnResult = NiceResult(NonEmptyOf(FirstOfEach(fnArgs.items)), fnArgs.maxShow)

C22_Witness ==
  /\ JoinCalled
  /\ fnArgs.items = <<<<"a">>, <<>>, <<"a">>, <<"b">>>>
  /\ fnArgs.maxShow = 3
  /\ fnResult = [text |-> <<"a"," ","a","n","d"," ","b">>, remaining |-> 0]

(* C23, as stated: a path of at most 26 characters is returned unchanged,
   white space at its ends included. *)
C23_ShortPathUnchanged ==
  ShortCalled /\ Len(fnArgs.p) <= 26 => fnResult = fnArgs.p

(* C23, amended: a path whose trimmed form has at most 26 characters is
   returned trimmed, so it is returned unchanged exactly when it has no
   white space at its ends. *)
C23_ShortPathTrimmed ==
  ShortCalled /\ Len(Stripped(fnArgs.p)) <= 26 =>
    /\ fnResult = Stripped(fnArgs.p)
    /\ fnResult = fnArgs.p <=> fnArgs.p = Stripped(fnArgs.p)

C23_Witness ==
  /\ ShortCalled
  /\ fnArgs.p = <<" ","a","/","b","TAB">>
  /\ fnResult = <<"a","/","b">>

PlaceholderBody ==
  <<"F","i","l","e","s",":","LF",
    "-"," ","(","n","o"," ","f","i","l","e"," ","l","i","s","t"," ",
    "a","v","a","i","l","a","b","l","e",")">>

(* title and cap of each section, in the order of the body *)
SectionTable ==
  <<[name |-> "added", title |-> <<"A","d","d","e","d",":">>, cap |-> 12],
    [name |-> "modified", title |-> <<"M","o","d","i","f","i","e","d",":">>, cap |-> 14],
    [name |-> "deleted", title |-> <<"D","e","l","e","t","e","d",":">>, cap |-> 8],
    [name |-> "renamed", title |-> <<"R","e","n","a","m","e","d",":">>, cap |-> 6],
    [name |-> "copied", title |-> <<"C","o","p","i","e","d",":">>, cap |-> 6],
    [name |-> "other", title |-> <<"O","t","h","e","r",":">>, cap |-> 6]>>

AllEmpty(b) == \A name \in BucketNames : b[name] = <<>>

(* C24: the body is never the empty string: the placeholder for buckets
   that are all empty, and text that starts with a section title
   otherwise. *)
C24_BodyNeverEmpty ==
  BodyCalled =>
    /\ fnResult # <<>>
    /\ AllEmpty(fnArgs.b) => fnResult = PlaceholderBody
    /\ ~AllEmpty(fnArgs.b) =>
         /\ fnResult # PlaceholderBody
         /\ \E i \in 1..Len(SectionTable) :
              Runs(fnResult, "LF")[1] = SectionTable[i].title

C24_Witness ==
  /\ BodyCalled
  /\ AllEmpty(fnArgs.b)
  /\ fnResult = PlaceholderBody

(* number of lines of a section of the given size *)
SectionLines(size, cap) ==
  IF size = 0 THEN 0
  ELSE 1 + (IF size <= cap THEN size ELSE cap) + (IF size > cap THEN 1 ELSE 0)

RECURSIVE LinesBefore(_, _)
LinesBefore(b, i) ==
  IF i = 1 THEN 0
  ELSE LinesBefore(b, i - 1)
         + SectionLines(Len(b[SectionTable[i - 1].name]), SectionTable[i - 1].cap)

MoreLine(n) == <<"-"," ","ELLIPSIS","a","n","d"," ">> \o numStr(n) \o <<" ","m","o","r","e">>

(* C25: the body has the sections Added, Modified, Deleted, Renamed,
   Copied, Other in this order without the empty ones; a section is its
   title, the first min(size, cap) entries of its bucket and, exactly when
   size > cap, the line that counts the size - cap entries left out. *)
C25_SectionsInOrderWithCaps ==
  BodyCalled /\ ~AllEmpty(fnArgs.b) =>
    LET b == fnArgs.b
        lines == Runs(fnResult, "LF")
    IN /\ Len(lines) = LinesBefore(b, Len(SectionTable) + 1)
       /\ \A i \in 1..Len(SectionTable) :
            LET items == b[SectionTable[i].name]
                cap == SectionTable[i].cap
                off == LinesBefore(b, i)
                shown == IF Len(items) <= cap THEN Len(items) ELSE cap
            IN items # <<>> =>
                 /\ lines[off + 1] = SectionTable[i].title
                 /\ \A k \in 1..shown : lines[off + 1 + k] = <<"-"," ">> \o items[k]
                 /\ Len(items) > cap =>
                      lines[off + 2 + shown] = MoreLine(Len(items) - cap)

C25_Witness ==
  /\ BodyCalled
  /\ Len(fnArgs.b.added) = 14
  /\ fnArgs.b.modified = <<>>
  /\ Len(fnArgs.b.deleted) = 9
  /\ Len(fnArgs.b.other) = 6

(* the last non-empty segment of a trimmed path, empty when there is none *)
Basename(p) ==
  LET segs == Runs(Stripped(p), "/")
  IN IF segs = <<>> THEN <<>> ELSE segs[Len(segs)]

(* C30: the shortened path has at most 26 characters, is not empty when the
   trimmed input is not, and is the first 25 characters of the basename and
   an ellipsis when the trimmed path and its basename both have more than
   26. *)
C30_ShortPathBoundedAndNonEmpty ==
  ShortCalled =>
    /\ Len(fnResult) <= 26
    /\ Stripped(fnArgs.p) # <<>> => fnResult # <<>>
    /\ Len(Stripped(fnArgs.p)) > 26 /\ Len(Basename(fnArgs.p)) > 26 =>
         fnResult = SubSeq(Basename(fnArgs.p), 1, 25) \o <<"ELLIPSIS">>

====
